---- MODULE Spec2Model ----
(***************************************************************************)
(* State-machine model of matrix.py (terminal "digital rain").             *)
(*                                                                         *)
(* The program is single threaded.  main() runs a frame loop; every rain   *)
(* is a Python generator (rain, delegating to animate_rain) that the loop  *)
(* resumes with next().  The model keeps the position of the main loop     *)
(* (pc, i) and the position of every generator (gpc), so that the steps    *)
(* inside one next() call (release of the old column, pick of a new one,   *)
(* one iteration of the animation loop) are separate transitions.          *)
(***************************************************************************)
EXTENDS Integers, Sequences, FiniteSets

VARIABLES
    LINES,      \* curses.LINES, fixed for the session
    COLS,       \* curses.COLS, fixed for the session
    options,    \* the module-level dict options: head, speed, count
    pool,       \* main's list pool (free columns), a Python list
    rains,      \* main's list rains; each entry is one rain() generator
    pc,         \* position of main: "add", "sweep", "poll", "exit", "crash"
    i,          \* position of "for r in rains" (1-based index of r)
    ch,         \* main's variable ch, the last key returned by getch()
    prevHead,   \* history: options['head'] before the latest update_style()
    USE_GRADIENT,   \* the module-level flag set by init_colors()
    writes,     \* the stdscr.addstr calls of the latest iteration of the
                \* animation loop, in the order they were made
    screen      \* the cells <<row, col>> of stdscr that hold a glyph
                \* written by a rain

vars == <<LINES, COLS, options, pool, rains, pc, i, ch, prevHead,
          USE_GRADIENT, writes, screen>>

----------------------------------------------------------------------------
(* Bounds of the model.                                                    *)

\* Small terminals: LINES in 1..MaxRows and COLS in 0..MaxCols.
MaxRows == 3
MaxCols == 4

----------------------------------------------------------------------------
(* Program constants.                                                      *)

FALLING_SPEED == 2
MAX_RAIN_COUNT == 10

\* curses.COLOR_WHITE | curses.A_STANDOUT and curses.COLOR_WHITE |
\* curses.A_BOLD with the ncurses values COLOR_WHITE = 7,
\* A_STANDOUT = 2^16, A_BOLD = 2^21.
HEAD_STANDOUT == 65543
HEAD_BOLD == 2097159

\* Key codes main compares ch with: curses.ERR, ord(' '), ord('h').
ERR == -1
KEY_SPACE == 32
KEY_H == 104

\* Colour gradient (lines 19, 21) and curses.A_BOLD (2^21).
NUMBER_OF_COLOR == 50
START_COLOR_NUM == 128
A_BOLD == 2097152

\* The divisor of curses.LINES in config(): options['speed'] = 1 + LINES//25.
\* It is also the smallest LINES for which the speed bound exceeds 1.
SPEED_LINES == 25

\* The keys getch() is sampled over: no key, space, 'h', and one other key
\* ('q', 113) standing for every key that is none of these.
Keys == {ERR, KEY_SPACE, KEY_H, 113}

NoCol == -1     \* "no column": the generator's x is not bound

----------------------------------------------------------------------------
(* Python list helpers.                                                    *)

\* list(range(n))
Range(n) == [k \in 1..n |-> k - 1]

Elems(s) == {s[k] : k \in DOMAIN s}

\* number of occurrences of x in the list s
Count(s, x) == Cardinality({k \in DOMAIN s : s[k] = x})

\* range(a, b) as the list of its values, empty when b <= a
py_range(a, b) == IF b <= a THEN <<>> ELSE [k \in 1..(b - a) |-> a + k - 1]

Min(a, b) == IF a < b THEN a ELSE b

Max(a, b) == IF a > b THEN a ELSE b

\* Mutant of list_remove: the column is not taken out of the list.
list_remove_kept(s, x) == s

\* s.remove(x): drops the first occurrence of x (x is in s)
list_remove(s, x) ==
    LET p == CHOOSE k \in DOMAIN s : s[k] = x /\ \A j \in 1..(k - 1) : s[j] # x
    IN  [k \in 1..(Len(s) - 1) |-> IF k < p THEN s[k] ELSE s[k + 1]]

\* Mutant of list_append: the column is put back twice.
list_append_twice(s, x) == Append(Append(s, x), x)

\* Mutant of list_append: the element is not put into the list.
list_append_lost(s, x) == s

\* s.append(x)
list_append(s, x) == Append(s, x)

----------------------------------------------------------------------------
(* Options and terminal sizes.                                             *)

\* The module-level dict options (lines 28-32).
options0 == [head |-> HEAD_STANDOUT, speed |-> FALLING_SPEED, count |-> MAX_RAIN_COUNT]

\* config(): resets count and speed from the screen size (lines 42-43).
config(o, lines, cols) ==
    [o EXCEPT !.count = cols \div 2, !.speed = 1 + lines \div SPEED_LINES]

\* The terminals of the model: every small terminal, and one tall terminal
\* of SPEED_LINES lines, the smallest for which config() gives a speed bound
\* of 2, kept narrow enough to hold a single rain (COLS // 2 = 1).
Terminals ==
    ((1..MaxRows) \X (0..MaxCols))
        \cup ({SPEED_LINES} \X {c \in 0..MaxCols : c \div 2 = 1})

\* Mutant of pool_init: the pool holds every column, the last one too.
pool_init_all(cols) == Range(cols)

\* pool = list(range(curses.COLS - 1))  (line 168)
pool_init(cols) == Range(cols - 1)

----------------------------------------------------------------------------
(* Generators.                                                             *)

\* A rain() generator.  gpc is its position:
\*   "created"  created by rain(stdscr, pool), no code run yet
\*   "pick"     in rain at line 82, about to choose a column
\*   "loop"     in animate_rain at the loop test of line 105, just started
\*   "yielded"  suspended at the yield of line 121
\* x, max_length, speed are rain's locals; head, middle, tail those of the
\* running animate_rain.  n and adv are history: the number of iterations
\* of the animation loop done in the current fall, and the number of next()
\* calls that returned for this generator in the current frame.
\* marks and blanked are history too: the rows of column x that hold a
\* glyph written by the current fall, and the rows the current fall has
\* written a blank to.
new_rain ==
    [gpc |-> "created", x |-> NoCol, max_length |-> 0, speed |-> 0,
     head |-> 0, middle |-> 0, tail |-> 0, n |-> 0, adv |-> 0,
     marks |-> {}, blanked |-> {}]

\* random_rain_length(): random.randint(LINES//2, LINES), both ends included
rain_lengths(lines) == (lines \div 2)..lines

\* random.randint(1, options['speed'])
rain_speeds(o) == 1..o.speed

\* middle = head - max_length//2, clamped at 0  (lines 106-108)
middle_of(head, max_length) ==
    IF head - max_length \div 2 < 0 THEN 0 ELSE head - max_length \div 2

\* Mutant of tail_of: the clamp at 0 is missing.
tail_of_unclamped(head, max_length) == head - max_length

\* tail = head - max_length, clamped at 0  (lines 110-112)
tail_of(head, max_length) ==
    IF head - max_length < 0 THEN 0 ELSE head - max_length

\* Mutant of falling: the loop test is off by one.
falling_late(tail, lines) == tail <= lines

\* Mutant of falling: the loop ends one row early.
falling_early(tail, lines) == tail < lines - 1

\* Mutant of falling: the loop body is never entered.
falling_never(tail, lines) == FALSE

\* the loop test of animate_rain: while tail < curses.LINES  (line 105)
falling(tail, lines) == tail < lines

\* Mutant of next_head: the head moves one row whatever the speed.
next_head_slow(head, speed) == head + 1

\* Mutant of next_head: the head does not move.
next_head_stuck(head, speed) == head

\* head = head + speed  (line 120)
next_head(head, speed) == head + speed

\* A generator that holds a column: between pool.remove(x) and pool.append(x).
Holds(r) == r.gpc \in {"loop", "yielded"}

----------------------------------------------------------------------------
(* Painting.  A cell write is stdscr.addstr(row, col, ch, attr); ch is     *)
(* "glyph" for random_char(), which never returns a space, and "blank"     *)
(* for ' '.  by names the function that made the call.                     *)

\* curses.color_pair(n) is n shifted left by 8 bits
color_pair(n) == n * 256

cell(by, row, col, c, attr) ==
    [by |-> by, row |-> row, col |-> col, ch |-> c, attr |-> attr]

\* Mutant of show_tail: the end of the range is not clipped to the screen.
show_tail_unclipped(tail, x, speed, lines) ==
    LET rows == py_range(Max(0, tail - speed), tail)
    IN  [k \in DOMAIN rows |-> cell("show_tail", rows[k], x, "blank", color_pair(0))]

\* show_tail  (lines 140-142)
show_tail(tail, x, speed, lines) ==
    LET rows == py_range(Max(0, tail - speed), Min(tail, lines))
    IN  [k \in DOMAIN rows |-> cell("show_tail", rows[k], x, "blank", color_pair(0))]

\* Mutant of color_num: the clamp at 0 is missing.
color_num_unclamped(row, head) == NUMBER_OF_COLOR - (head - row) + 1

\* color_num of get_color  (lines 146-148)
color_num(row, head) ==
    LET c == NUMBER_OF_COLOR - (head - row) + 1
    IN  IF c < 0 THEN 0 ELSE c

\* get_color  (lines 145-149)
get_color(row, head, tail) == color_pair(START_COLOR_NUM + color_num(row, head))

\* Mutant of show_body: the emphasized range starts at tail, not at middle.
show_body_overlap(gradient, head, middle, tail, x, lines) ==
    LET plain == py_range(tail, Min(middle, lines))
        bold == py_range(tail, Min(head, lines))
    IN  [k \in DOMAIN plain |->
            cell("show_body", plain[k], x, "glyph", color_pair(1))]
        \o [k \in DOMAIN bold |->
            cell("show_body", bold[k], x, "glyph", color_pair(1) + A_BOLD)]

\* show_body  (lines 129-137)
show_body(gradient, head, middle, tail, x, lines) ==
    IF gradient
    THEN LET rows == py_range(tail, Min(head, lines))
         IN  [k \in DOMAIN rows |->
                cell("show_body", rows[k], x, "glyph", get_color(rows[k], head, tail))]
    ELSE LET plain == py_range(tail, Min(middle, lines))
             bold == py_range(middle, Min(head, lines))
         IN  [k \in DOMAIN plain |->
                cell("show_body", plain[k], x, "glyph", color_pair(1))]
             \o [k \in DOMAIN bold |->
                cell("show_body", bold[k], x, "glyph", color_pair(1) + A_BOLD)]

\* Mutant of show_head: the test is off by one.
show_head_late(head, x, lines, style) ==
    IF head <= lines
    THEN <<cell("show_head", head, x, "glyph", style)>>
    ELSE <<>>

\* show_head  (lines 124-126)
show_head(head, x, lines, style) ==
    IF head < lines
    THEN <<cell("show_head", head, x, "glyph", style)>>
    ELSE <<>>

\* The addstr calls of one iteration of the loop of animate_rain, in order
\* (lines 110-118): show_tail only in the else branch of "if tail < 0".
iteration_writes(r, gradient, lines, style) ==
    LET middle == middle_of(r.head, r.max_length)
        tail == tail_of(r.head, r.max_length)
    IN  (IF r.head - r.max_length < 0 THEN <<>> ELSE show_tail(tail, r.x, r.speed, lines))
        \o show_body(gradient, r.head, middle, tail, r.x, lines)
        \o show_head(r.head, r.x, lines, style)

\* The rows of a column that hold a glyph after the writes ws, made in order.
\* A row holds what the last write to it wrote; a row not written to is as
\* it was.
marks_after(marks, ws) ==
    LET written == {ws[k].row : k \in DOMAIN ws}
        last(row) == CHOOSE k \in DOMAIN ws :
                        /\ ws[k].row = row
                        /\ \A j \in DOMAIN ws : ws[j].row = row => j <= k
    IN  (marks \ written) \cup {row \in written : ws[last(row)].ch = "glyph"}

\* The screen after the writes ws, all made to column x, in order.
screen_after(scr, x, ws) ==
    {c \in scr : c[2] # x}
        \cup {<<row, x>> : row \in marks_after({c[1] : c \in {d \in scr : d[2] = x}}, ws)}

\* The rows the writes ws write a blank to.
blank_rows(ws) == {ws[k].row : k \in {j \in DOMAIN ws : ws[j].ch = "blank"}}

----------------------------------------------------------------------------
(* Style toggle.                                                           *)

\* Mutant of update_style: the style is set, not toggled.
update_style_set(h) == HEAD_BOLD

\* update_style()  (line 157)
update_style(h) == IF h = HEAD_STANDOUT THEN HEAD_BOLD ELSE HEAD_STANDOUT

----------------------------------------------------------------------------
(* Initial state: main() after config(stdscr) and lines 167-168.           *)

Init ==
    /\ \E t \in Terminals : LINES = t[1] /\ COLS = t[2]
    /\ options = config(options0, LINES, COLS)
    /\ pool = pool_init(COLS)
    /\ rains = <<>>
    /\ pc = "add"
    /\ i = 1
    /\ ch \in Keys \ {ERR}      \* line 164: the blocking getch() of the splash
    /\ prevHead = 0
    /\ USE_GRADIENT \in BOOLEAN    \* line 49: curses.can_change_color()
    /\ writes = <<>>
    /\ screen = {}

----------------------------------------------------------------------------
(* Actions.                                                                *)

\* Mutant of add_rain_cond: the count test is off by one.
add_rain_cond_late(rs, o, p) == Len(rs) <= o.count /\ Len(p) > 0

\* The condition of add_rain (line 187).
add_rain_cond(rs, o, p) == Len(rs) < o.count /\ Len(p) > 0

\* Top of "while True": add_rain(rains, stdscr, pool), then the for loop
\* starts (lines 171-173).
add_rain ==
    /\ pc = "add"
    /\ rains' = IF add_rain_cond(rains, options, pool)
                THEN Append(rains, new_rain)
                ELSE rains
    /\ pc' = "sweep"
    /\ i' = 1
    /\ UNCHANGED <<LINES, COLS, options, pool, ch, prevHead, USE_GRADIENT, writes, screen>>

\* Inside next(rains[i]): rain, lines 82-85, then animate_rain starts
\* (line 103).  random.choice on an empty list raises IndexError, which
\* leaves main.
rain_pick ==
    /\ pc = "sweep" /\ i <= Len(rains)
    /\ rains[i].gpc \in {"created", "pick"}
    /\ IF pool = <<>>
       THEN /\ pc' = "crash"
            /\ UNCHANGED <<rains, pool>>
       ELSE /\ \E x \in Elems(pool), l \in rain_lengths(LINES), s \in rain_speeds(options) :
                 /\ pool' = list_remove(pool, x)
                 /\ rains' = [rains EXCEPT ![i] =
                        [@ EXCEPT !.gpc = "loop", !.x = x, !.max_length = l,
                                  !.speed = s, !.head = 0, !.middle = 0,
                                  !.tail = 0, !.n = 0,
                                  !.marks = {}, !.blanked = {}]]
            /\ pc' = pc
    /\ UNCHANGED <<LINES, COLS, options, i, ch, prevHead, USE_GRADIENT, writes, screen>>

\* Mutant of for_next: the loop skips a rain.
for_next_skip(k) == k + 2

\* The for loop of main takes the next rain of the list (line 173).
for_next(k) == k + 1

\* next(rains[i]) finds the generator in or at the loop of animate_rain with
\* the loop test true (line 105); the yield of that iteration (line 121)
\* returns to the for loop of main, which takes the next rain.
resume ==
    /\ pc = "sweep" /\ i <= Len(rains)
    /\ rains[i].gpc \in {"loop", "yielded"}
    /\ falling(rains[i].tail, LINES)
    /\ i' = for_next(i)

\* Inside next(rains[i]): one iteration of the loop of animate_rain
\* (lines 105-121), up to the yield, which returns to the for loop of main.
animate_rain ==
    /\ resume
    /\ LET r == rains[i]
           ws == iteration_writes(r, USE_GRADIENT, LINES, options.head)
       IN  /\ writes' = ws
           /\ screen' = screen_after(screen, r.x, ws)
           /\ rains' = [rains EXCEPT ![i] =
               [r EXCEPT !.gpc = "yielded",
                         !.middle = middle_of(r.head, r.max_length),
                         !.tail = tail_of(r.head, r.max_length),
                         !.head = next_head(r.head, r.speed),
                         !.n = r.n + 1,
                         !.adv = r.adv + 1,
                         !.marks = marks_after(r.marks, ws),
                         !.blanked = r.blanked \cup blank_rows(ws)]]
    /\ UNCHANGED <<LINES, COLS, options, pool, pc, ch, prevHead, USE_GRADIENT>>

\* Inside next(rains[i]): the loop of animate_rain has ended, rain goes on
\* with pool.append(x) (line 87) and loops back to line 82.
rain_release ==
    /\ pc = "sweep" /\ i <= Len(rains)
    /\ rains[i].gpc \in {"loop", "yielded"}
    /\ ~falling(rains[i].tail, LINES)
    /\ pool' = list_append(pool, rains[i].x)
    /\ rains' = [rains EXCEPT ![i] =
           [@ EXCEPT !.gpc = "pick", !.head = 0, !.middle = 0, !.tail = 0]]
    /\ UNCHANGED <<LINES, COLS, options, pc, i, ch, prevHead, USE_GRADIENT, writes, screen>>

\* The for loop of main is exhausted (line 173).
for_done ==
    /\ pc = "sweep" /\ i > Len(rains)
    /\ pc' = "poll"
    /\ UNCHANGED <<LINES, COLS, options, pool, rains, i, ch, prevHead,
                   USE_GRADIENT, writes, screen>>

\* Mutant of is_command: the space key is not excluded.
is_command_space(key) == key # ERR

\* The key test of main (line 177).
is_command(key) == key # ERR /\ key # KEY_SPACE

\* Mutant of is_style_key: every command key toggles the style.
is_style_key_any(key) == TRUE

\* The key that calls update_style (line 178).
is_style_key(key) == key = KEY_H

\* ch = stdscr.getch() and the key handling (lines 176-183).  The frame
\* ends here: the per-frame history counter adv is reset.
getch ==
    /\ pc = "poll"
    /\ \E key \in Keys :
        /\ ch' = key
        /\ IF is_command(key)
           THEN IF is_style_key(key)
                THEN /\ options' = [options EXCEPT !.head = update_style(@)]
                     /\ prevHead' = options.head
                     /\ pc' = "add"
                ELSE /\ pc' = "exit"
                     /\ UNCHANGED <<options, prevHead>>
           ELSE /\ pc' = "add"
                /\ UNCHANGED <<options, prevHead>>
    /\ rains' = [k \in DOMAIN rains |-> [rains[k] EXCEPT !.adv = 0]]
    /\ UNCHANGED <<LINES, COLS, pool, i, USE_GRADIENT, writes, screen>>

Next ==
    \/ add_rain
    \/ rain_pick
    \/ animate_rain
    \/ rain_release
    \/ for_done
    \/ getch

Spec == Init /\ [][Next]_vars

----------------------------------------------------------------------------
(* The scenario of a single rain on a 20-line terminal with a speed bound  *)
(* of 2: rain() driven by the frame loop with options['speed'] left at its *)
(* module-level value FALLING_SPEED (config() would set 1 for 20 lines)    *)
(* and options['count'] set to 1.  The pool holds columns 0..3.            *)

InitScenario ==
    /\ LINES = 20
    /\ COLS = 5
    /\ options = [options0 EXCEPT !.count = 1]
    /\ pool = pool_init(COLS)
    /\ rains = <<>>
    /\ pc = "add"
    /\ i = 1
    /\ ch \in Keys \ {ERR}
    /\ prevHead = 0
    /\ USE_GRADIENT = FALSE     \* line 20: init_colors() has not run
    /\ writes = <<>>
    /\ screen = {}

SpecScenario == InitScenario /\ [][Next]_vars

----------------------------------------------------------------------------
(* A terminal that can change colours and is tall enough for the gradient  *)
(* to run out of shades: a rain can be longer than NUMBER_OF_COLOR + 1     *)
(* rows.  It has two columns, hence one rain.                              *)

InitGradient ==
    /\ LINES = NUMBER_OF_COLOR + 4
    /\ COLS = 2
    /\ options = config(options0, LINES, COLS)
    /\ pool = pool_init(COLS)
    /\ rains = <<>>
    /\ pc = "add"
    /\ i = 1
    /\ ch \in Keys \ {ERR}
    /\ prevHead = 0
    /\ USE_GRADIENT = TRUE
    /\ writes = <<>>
    /\ screen = {}

SpecGradient == InitGradient /\ [][Next]_vars

----------------------------------------------------------------------------
(* Notions the properties below are stated with.                           *)

\* The top of a frame, the end of its sweep, and the end of the loop.
FrameBoundary == pc \in {"add", "poll", "exit"}

\* The generators of the list that hold column c.
Owners(c) == {k \in DOMAIN rains : Holds(rains[k]) /\ rains[k].x = c}

\* Column c is in the pool and held by no rain, or not in the pool and held
\* by exactly one rain.
InExactlyOne(c) ==
    \/ c \in Elems(pool) /\ Owners(c) = {}
    \/ c \notin Elems(pool) /\ Cardinality(Owners(c)) = 1

\* A rain whose advance left tail >= rows.
Finished(r) == r.gpc = "yielded" /\ r.tail >= LINES

Styles == {HEAD_STANDOUT, HEAD_BOLD}

----------------------------------------------------------------------------
(* C1 *)

\* C1, as stated: at every frame boundary every column index 0..COLS-1 is
\* in exactly one of the pool and exactly one active rain.
C1_AllColumnsPartitioned ==
    FrameBoundary => \A c \in 0..(COLS - 1) : InExactlyOne(c)

\* C1, amended: at every frame boundary every column index 0..COLS-2 (the
\* columns line 168 puts in the pool) is in exactly one of the pool and
\* exactly one active rain; the last column, COLS-1, is never in the pool
\* and never held by a rain.
C1_PoolColumnsPartitioned ==
    FrameBoundary =>
        /\ \A c \in 0..(COLS - 2) : InExactlyOne(c)
        /\ (COLS - 1) \notin Elems(pool)
        /\ Owners(COLS - 1) = {}

\* Two rains hold columns at the end of a sweep while the pool is not empty.
C1_Witness ==
    /\ pc = "poll"
    /\ Len(rains) = 2
    /\ \A k \in DOMAIN rains : Holds(rains[k])
    /\ pool # <<>>

----------------------------------------------------------------------------
(* C2 *)

\* In a step that puts column c into the pool, c was held by the rain being
\* resumed, which holds no column afterwards, and c goes in once.
C2_ReleaseByHolder ==
    \A c \in 0..(COLS - 1) :
        Count(pool', c) > Count(pool, c) =>
            /\ pc = "sweep" /\ i \in Owners(c)
            /\ ~Holds(rains'[i])
            /\ Count(pool', c) = Count(pool, c) + 1

\* C2: in every state no column is held by two rains, no column held by a
\* rain is in the pool, and the pool list holds no column twice; a column
\* is put into the pool only by the rain that holds it, once.
C2_NoCollision ==
    /\ [](\A c \in 0..(COLS - 1) :
            /\ Cardinality(Owners(c)) <= 1
            /\ (Owners(c) # {} => c \notin Elems(pool))
            /\ Count(pool, c) <= 1)
    /\ [][C2_ReleaseByHolder]_vars

\* One rain has just put its column back while another one holds a column.
C2_Witness ==
    \E k, j \in DOMAIN rains :
        /\ rains[k].gpc = "pick"
        /\ rains[k].x \in Elems(pool)
        /\ Holds(rains[j])

----------------------------------------------------------------------------
(* C3 *)

\* C3: the number of rains never exceeds options['count']; a step adds a
\* rain only at the creation step, one at a time, with the count below the
\* maximum and the pool not empty; the creation step with an empty pool
\* leaves the list of rains unchanged.
C3_CountBounded ==
    /\ [](Len(rains) <= options.count)
    /\ [][/\ Len(rains') > Len(rains) =>
                /\ pc = "add"
                /\ Len(rains) < options.count
                /\ Len(pool) > 0
                /\ Len(rains') = Len(rains) + 1
          /\ (pc = "add" /\ pool = <<>>) => rains' = rains]_vars

\* The creation step is reached with an empty pool and a full list of rains.
C3_Witness ==
    /\ pc = "add"
    /\ pool = <<>>
    /\ Len(rains) >= 1
    /\ Len(rains) = options.count

----------------------------------------------------------------------------
(* C4 *)

\* C4: after every advance 0 <= tail <= middle <= head, and from one
\* advance of a fall to the next its tail does not decrease.
C4_Geometry ==
    /\ [](\A k \in DOMAIN rains :
            rains[k].gpc = "yielded" =>
                /\ 0 <= rains[k].tail
                /\ rains[k].tail <= rains[k].middle
                /\ rains[k].middle <= rains[k].head)
    /\ [][\A k \in DOMAIN rains :
            (rains[k].gpc = "yielded" /\ rains'[k].gpc = "yielded") =>
                rains'[k].tail >= rains[k].tail]_vars

\* A rain of speed 2 whose tail, middle and head are three different rows
\* below row 0.
C4_Witness ==
    \E k \in DOMAIN rains :
        /\ rains[k].gpc = "yielded"
        /\ rains[k].speed = 2
        /\ 0 < rains[k].tail
        /\ rains[k].tail < rains[k].middle
        /\ rains[k].middle < rains[k].head

----------------------------------------------------------------------------
(* C5 *)

\* C5, as stated: after each advance the rain is Finished if and only if
\* head - length >= rows, head being the value after that advance.
C5_FinishedByHeadAfter ==
    \A k \in DOMAIN rains :
        rains[k].gpc = "yielded" =>
            (Finished(rains[k]) <=>
                rains[k].head - rains[k].max_length >= LINES)

\* C5, amended: after each advance the rain is Finished if and only if
\* head - speed - length >= rows, head being the value after that advance
\* (the tail is computed from the head before the increment); and a step
\* ends the animation of a rain and releases its column if and only if
\* that rain is Finished and is the one being resumed.
C5_FinishedByHeadBefore ==
    /\ [](\A k \in DOMAIN rains :
            rains[k].gpc = "yielded" =>
                (Finished(rains[k]) <=>
                    rains[k].head - rains[k].speed - rains[k].max_length >= LINES))
    /\ [][\A k \in DOMAIN rains :
            (rains[k].gpc # "pick" /\ rains'[k].gpc = "pick") <=>
                (pc = "sweep" /\ i = k /\ Finished(rains[k]))]_vars

\* A rain of speed 2 is Finished.
C5_Witness ==
    \E k \in DOMAIN rains : Finished(rains[k]) /\ rains[k].speed = 2

----------------------------------------------------------------------------
(* C6 *)

\* C6: a step from a state where a rain is Finished either leaves that
\* fall as it is, its column still out of the pool, or ends it: no further
\* iteration of the animation loop runs for it, and its column is appended
\* to the pool, where it then is exactly once.  A column is never in the
\* pool twice.
C6_FinishedNotAdvanced ==
    /\ [](\A c \in 0..(COLS - 1) : Count(pool, c) <= 1)
    /\ [][\A k \in DOMAIN rains :
            Finished(rains[k]) =>
                \/ /\ Finished(rains'[k])
                   /\ rains'[k].n = rains[k].n
                   /\ rains'[k].head = rains[k].head
                   /\ rains'[k].x = rains[k].x
                   /\ Count(pool', rains[k].x) = 0
                \/ /\ rains'[k].gpc = "pick"
                   /\ rains'[k].n = rains[k].n
                   /\ pool' = Append(pool, rains[k].x)
                   /\ Count(pool', rains[k].x) = 1]_vars

\* A rain has ended its fall and its column is back in the pool, while
\* another rain is falling.
C6_Witness ==
    \E k, j \in DOMAIN rains :
        /\ rains[k].gpc = "pick"
        /\ rains[k].n > 0
        /\ Count(pool, rains[k].x) = 1
        /\ rains[j].gpc = "yielded" /\ ~Finished(rains[j])

----------------------------------------------------------------------------
(* C7 *)

\* The rain of the scenario: 20 rows, column 3, length 10, speed 2.
Scenario(r) == LINES = 20 /\ r.x = 3 /\ r.max_length = 10 /\ r.speed = 2

\* C7, as stated: after 5 advances head = 10 and tail = 0; after 10
\* advances head = 20 and tail = 10; after 15 advances head = 30 and
\* tail = 20, the rain is Finished and column 3 is in the pool.
C7_ScenarioAsStated ==
    \A k \in DOMAIN rains :
        (Scenario(rains[k]) /\ rains[k].gpc = "yielded") =>
            /\ rains[k].n = 5 => (rains[k].head = 10 /\ rains[k].tail = 0)
            /\ rains[k].n = 10 => (rains[k].head = 20 /\ rains[k].tail = 10)
            /\ rains[k].n = 15 =>
                    /\ rains[k].head = 30 /\ rains[k].tail = 20
                    /\ Finished(rains[k])
                    /\ 3 \in Elems(pool)

\* C7, amended: after 5 advances head = 10 and tail = 0; after 10 advances
\* head = 20 and tail = 8; after 15 advances head = 30 and tail = 18, the
\* rain is not Finished and holds column 3; the 16th advance gives head = 32
\* and tail = 20, the rain is Finished and still holds column 3; there is
\* no 17th iteration: the next advance call puts column 3 back in the pool.
C7_ScenarioAmended ==
    \A k \in DOMAIN rains :
        Scenario(rains[k]) =>
            /\ rains[k].gpc = "yielded" =>
                /\ rains[k].n = 5 => (rains[k].head = 10 /\ rains[k].tail = 0)
                /\ rains[k].n = 10 => (rains[k].head = 20 /\ rains[k].tail = 8)
                /\ rains[k].n = 15 =>
                        /\ rains[k].head = 30 /\ rains[k].tail = 18
                        /\ ~Finished(rains[k])
                /\ rains[k].n = 16 =>
                        /\ rains[k].head = 32 /\ rains[k].tail = 20
                        /\ Finished(rains[k])
                /\ rains[k].n <= 16
                /\ Finished(rains[k]) => rains[k].n = 16
                /\ 3 \notin Elems(pool)
            /\ rains[k].gpc = "pick" =>
                /\ rains[k].n = 16
                /\ Count(pool, 3) = 1

\* The rain of the scenario has put column 3 back in the pool.
C7_Witness ==
    \E k \in DOMAIN rains :
        /\ Scenario(rains[k])
        /\ rains[k].gpc = "pick"
        /\ rains[k].n = 16
        /\ 3 \in Elems(pool)

----------------------------------------------------------------------------
(* C8 *)

\* What the key polled in a step from the poll does.
C8_KeyEffect ==
    pc = "poll" =>
        /\ ch' \in {ERR, KEY_SPACE} => (pc' = "add" /\ options' = options)
        /\ ch' = KEY_H =>
                /\ pc' = "add"
                /\ options'.head \in Styles /\ options'.head # options.head
                /\ options'.speed = options.speed
                /\ options'.count = options.count
        /\ ch' \notin {ERR, KEY_SPACE, KEY_H} => pc' = "exit"

\* The loop is left only from the poll, by a key other than space and 'h'.
C8_ExitOnlyByKey ==
    (pc \in {"add", "sweep", "poll"} /\ pc' \notin {"add", "sweep", "poll"}) =>
        /\ pc = "poll" /\ pc' = "exit"
        /\ ch' \notin {ERR, KEY_SPACE, KEY_H}

\* C8: the key is polled when every rain of the list has been advanced once
\* in the frame; no key and space keep the loop running with the options
\* unchanged; 'h' flips the head style and keeps the loop running; any
\* other key ends the loop in that frame; nothing else ends the loop.
C8_KeyHandling ==
    /\ [](pc = "poll" =>
            \A k \in DOMAIN rains :
                rains[k].gpc = "yielded" /\ rains[k].adv = 1)
    /\ [][C8_KeyEffect /\ C8_ExitOnlyByKey]_vars

\* The loop has ended by a key, after a frame that advanced two rains and
\* after a style toggle.
C8_Witness ==
    /\ pc = "exit"
    /\ ch \notin {ERR, KEY_SPACE, KEY_H}
    /\ Len(rains) = 2
    /\ prevHead # 0

----------------------------------------------------------------------------
(* C9 *)

\* C9: a toggle takes the head style from one of the two styles to the
\* other one, and the second of two successive toggles gives back the
\* style the first one started from (prevHead).
C9_ToggleInvolution ==
    [][(pc = "poll" /\ ch' = KEY_H) =>
            /\ options.head \in Styles
            /\ options'.head \in Styles
            /\ options'.head # options.head
            /\ prevHead' = options.head
            /\ (prevHead # 0 => options'.head = prevHead)]_vars

\* Two toggles have been made and the head style is the initial one again.
C9_Witness ==
    /\ options.head = HEAD_STANDOUT
    /\ prevHead = HEAD_BOLD

----------------------------------------------------------------------------
(* C10 *)

\* C10, as stated: at the end of the sweep of a frame no rain of the list
\* is Finished (a rain whose advance produced Finished has been removed).
C10_FinishedRemovedInFrame ==
    pc \in {"poll", "add", "exit"} =>
        \A k \in DOMAIN rains : ~Finished(rains[k])

\* C10, amended: the list of rains never shrinks; at every frame boundary
\* every rain of the list, Finished or not, is suspended and holds its
\* column, which is not in the pool; a Finished rain changes only when it
\* is resumed by the sweep, and that step releases its column to the pool
\* (the same call then picks a column again for the same list entry).
C10_FinishedKeptUntilResumed ==
    /\ [](FrameBoundary =>
            \A k \in DOMAIN rains :
                /\ rains[k].gpc = "yielded"
                /\ rains[k].x \notin Elems(pool))
    /\ [][/\ Len(rains') >= Len(rains)
          /\ \A k \in DOMAIN rains :
                (Finished(rains[k]) /\
                    (rains'[k].gpc # "yielded" \/ rains'[k].n # rains[k].n)) =>
                        /\ pc = "sweep" /\ i = k
                        /\ rains'[k].gpc = "pick"
                        /\ pool' = Append(pool, rains[k].x)]_vars

\* The sweep of a frame has ended and a rain of the list is Finished.
C10_Witness ==
    /\ pc = "poll"
    /\ \E k \in DOMAIN rains : Finished(rains[k])

----------------------------------------------------------------------------
(* Notions about the cell writes.                                          *)

\* The step is one iteration of the animation loop of rains[i].
IsIteration ==
    /\ pc = "sweep" /\ i \in DOMAIN rains
    /\ rains'[i].gpc = "yielded"
    /\ rains'[i].n = rains[i].n + 1

\* The writes of ws made by function f, in order.
WritesBy(ws, f) == SelectSeq(ws, LAMBDA w : w.by = f)

\* The rows written by the writes ws.
RowsOf(ws) == {ws[k].row : k \in DOMAIN ws}

\* No row is written twice by the writes ws.
OncePerRow(ws) == \A k, j \in DOMAIN ws : ws[k].row = ws[j].row => k = j

\* The rows a <= r < b.
RowRange(a, b) == {r \in 0..(LINES + 1) : a <= r /\ r < b}

Clamp(v, lo, hi) == IF v < lo THEN lo ELSE IF v > hi THEN hi ELSE v

\* The gradient colour index of a write: its colour pair less the offset.
ColorIndex(w) == w.attr \div 256 - START_COLOR_NUM

----------------------------------------------------------------------------
(* C11 *)

\* C11: every cell write of the animation has 0 <= row < rows and
\* 0 <= column < columns.
C11_WritesOnScreen ==
    \A k \in DOMAIN writes :
        /\ 0 <= writes[k].row /\ writes[k].row < LINES
        /\ 0 <= writes[k].col /\ writes[k].col < COLS

\* One iteration has cleared the last row and another rain's iteration has
\* painted a head: writes reach the bottom row, from a tail that is past it.
C11_Witness ==
    /\ \E k \in DOMAIN writes :
            writes[k].by = "show_tail" /\ writes[k].row = LINES - 1
    /\ \E k \in DOMAIN rains :
            rains[k].gpc = "yielded" /\ rains[k].tail > LINES

----------------------------------------------------------------------------
(* C12 *)

\* C12: in gradient mode the colour index of every body cell at row r,
\* painted under head h, is clamp(N - (h - r) + 1, 0, N) with
\* N = NUMBER_OF_COLOR, and lies in 0..N; the body cells of an iteration
\* are painted in the order of decreasing distance h - r from the head and
\* the index never decreases along them, so that of two cells the one
\* further from the head has no greater index.
C12_GradientIndex ==
    [][(IsIteration /\ USE_GRADIENT) =>
        LET body == WritesBy(writes', "show_body")
            h == rains[i].head
        IN  /\ \A k \in DOMAIN body :
                /\ ColorIndex(body[k]) =
                        Clamp(NUMBER_OF_COLOR - (h - body[k].row) + 1, 0, NUMBER_OF_COLOR)
                /\ 0 <= ColorIndex(body[k])
                /\ ColorIndex(body[k]) <= NUMBER_OF_COLOR
            /\ \A k \in 1..(Len(body) - 1) :
                /\ h - body[k].row > h - body[k + 1].row
                /\ ColorIndex(body[k]) <= ColorIndex(body[k + 1])]_vars

\* An iteration has painted a body longer than the gradient has shades: its
\* first cell is clamped to index 0 and its last cell has index N.
C12_Witness ==
    LET body == WritesBy(writes, "show_body")
    IN  /\ USE_GRADIENT
        /\ Len(body) >= NUMBER_OF_COLOR + 3
        /\ ColorIndex(body[1]) = 0
        /\ ColorIndex(body[Len(body)]) = NUMBER_OF_COLOR

----------------------------------------------------------------------------
(* C13 *)

\* C13: during the sweep the rains before position i have been advanced
\* once in this frame and are suspended, the rains from position i on have
\* not been advanced, and only the rain at position i can be inside an
\* advance; a rain that has not started is the last of the list and is
\* started by the sweep of the frame that created it; at the end of the
\* sweep every rain has been advanced exactly once.
C13_OncePerFrameInOrder ==
    /\ i >= 1 /\ i <= Len(rains) + 1
    /\ \A k \in DOMAIN rains :
        /\ rains[k].gpc = "created" => (pc = "sweep" /\ k = Len(rains) /\ k >= i)
        /\ rains[k].gpc \in {"pick", "loop"} => (pc \in {"sweep", "crash"} /\ k = i)
        /\ pc = "add" => (rains[k].adv = 0 /\ rains[k].gpc = "yielded")
        /\ pc \in {"poll", "exit"} => rains[k].gpc = "yielded"
        /\ pc = "poll" => rains[k].adv = 1
        /\ pc = "sweep" =>
            /\ k < i => (rains[k].adv = 1 /\ rains[k].gpc = "yielded")
            /\ k >= i => rains[k].adv = 0

\* The sweep has advanced the first rain and is about to start the rain
\* that this frame created.
C13_Witness ==
    /\ pc = "sweep" /\ i = 2 /\ Len(rains) = 2
    /\ rains[1].adv = 1
    /\ rains[2].gpc = "created"

----------------------------------------------------------------------------
(* C14 *)

\* C14: in every iteration the new tail is max(0, head - length) for the
\* head at the start of the iteration, and the cells cleared are the rows
\* max(0, tail - speed) <= r < min(tail, rows) of the rain's column, each
\* once, when tail > 0, and none when tail = 0.
C14_TailClear ==
    [][IsIteration =>
        LET cleared == WritesBy(writes', "show_tail")
            t == rains'[i].tail
        IN  /\ t = Max(0, rains[i].head - rains[i].max_length)
            /\ RowsOf(cleared) =
                    IF t > 0
                    THEN RowRange(Max(0, t - rains[i].speed), Min(t, LINES))
                    ELSE {}
            /\ OncePerRow(cleared)
            /\ \A k \in DOMAIN cleared :
                    /\ cleared[k].col = rains[i].x
                    /\ cleared[k].ch = "blank"
            /\ \A k \in DOMAIN writes' :
                    writes'[k].ch = "blank" => writes'[k].by = "show_tail"]_vars

\* An iteration of a rain of speed 2 whose tail is past the bottom has
\* cleared one row only: the range was clipped to the screen.
C14_Witness ==
    /\ Len(WritesBy(writes, "show_tail")) = 1
    /\ \E k \in DOMAIN rains :
        /\ rains[k].gpc = "yielded"
        /\ rains[k].speed = 2
        /\ rains[k].tail = LINES + 1

----------------------------------------------------------------------------
(* C15 *)

\* C15: in fallback mode the body cells of an iteration are the rows
\* tail <= r < min(head, rows), each painted once, plain green below
\* middle and green with emphasis from middle on; a head cell is painted,
\* at (head, column) with the current head style, if and only if
\* head < rows; head is the value before the increment by speed.
C15_BodyAndHead ==
    [][(IsIteration /\ ~USE_GRADIENT) =>
        LET body == WritesBy(writes', "show_body")
            heads == WritesBy(writes', "show_head")
            h == rains[i].head
            t == rains'[i].tail
            m == rains'[i].middle
        IN  /\ RowsOf(body) = RowRange(t, Min(h, LINES))
            /\ OncePerRow(body)
            /\ \A k \in DOMAIN body :
                /\ body[k].col = rains[i].x
                /\ body[k].ch = "glyph"
                /\ body[k].row < m => body[k].attr = color_pair(1)
                /\ body[k].row >= m => body[k].attr = color_pair(1) + A_BOLD
            /\ (heads # <<>>) <=> (h < LINES)
            /\ heads # <<>> =>
                /\ Len(heads) = 1
                /\ heads[1].row = h /\ heads[1].col = rains[i].x
                /\ heads[1].ch = "glyph"
                /\ heads[1].attr = options.head
            /\ rains'[i].head = h + rains[i].speed]_vars

\* In fallback mode an iteration has painted a plain cell, an emphasized
\* cell and a head cell in the bold style.
C15_Witness ==
    /\ ~USE_GRADIENT
    /\ \E k \in DOMAIN writes :
            writes[k].by = "show_body" /\ writes[k].attr = color_pair(1)
    /\ \E k \in DOMAIN writes :
            writes[k].by = "show_body" /\ writes[k].attr = color_pair(1) + A_BOLD
    /\ \E k \in DOMAIN writes :
            writes[k].by = "show_head" /\ writes[k].attr = HEAD_BOLD

----------------------------------------------------------------------------
(* C16 *)

\* C16: no step changes options['speed'] or options['count'], which keep
\* the values config() gave them; a step changes options['head'] only when
\* it polls the key 'h'.
C16_OptionsStable ==
    /\ [](options.speed = 1 + LINES \div 25 /\ options.count = COLS \div 2)
    /\ [][/\ options'.speed = options.speed
          /\ options'.count = options.count
          /\ options'.head # options.head => (pc = "poll" /\ ch' = KEY_H)]_vars

\* After a style toggle a rain has released its column and a second rain
\* is falling: every kind of step has run with the toggled style.
C16_Witness ==
    /\ options.head = HEAD_BOLD
    /\ Len(rains) = 2
    /\ rains[1].gpc = "pick"
    /\ rains[2].n > 0

----------------------------------------------------------------------------
(* C17 *)

\* The frame loop keeps running: main is one thread that goes on with its
\* next statement until it breaks out of "while True" (line 181).  The
\* steps of Next that satisfy resume are the steps of animate_rain.
\* The terminals the liveness property is checked on: one rain on two
\* columns, two rains on four columns with two and three lines, and the
\* 25-line terminal, where a rain can have speed 2.
LiveTerminals == {<<1, 2>>, <<2, 4>>, <<3, 4>>, <<SPEED_LINES, 2>>}

InitLive == Init /\ <<LINES, COLS>> \in LiveTerminals

SpecLive ==
    /\ InitLive /\ [][Next]_vars
    /\ WF_vars(add_rain)
    /\ WF_vars(rain_pick)
    /\ WF_i(resume)
    /\ WF_vars(rain_release)
    /\ WF_vars(for_done)
    /\ WF_vars(getch)

\* Rain k holds a column.
HoldsColumn(k) == k \in DOMAIN rains /\ Holds(rains[k])

\* Rain k has tail >= rows after an advance.
HasFinished(k) == k \in DOMAIN rains /\ Finished(rains[k])

\* Rain k has put its column back into the pool.
HasReleased(k) ==
    k \in DOMAIN rains /\ rains[k].gpc = "pick" /\ rains[k].x \in Elems(pool)

\* A rain keeps its column for as long as it holds one, and the column it
\* has when it stops holding one is the column it held.
C17_SameColumn ==
    \A k \in DOMAIN rains :
        Holds(rains[k]) =>
            /\ rains'[k].x = rains[k].x
            /\ rains'[k].speed = rains[k].speed /\ rains[k].speed >= 1
            /\ rains'[k].gpc \in {"yielded", "pick"}

\* C17: unless a terminating key ends the loop, every rain that holds a
\* column eventually has tail >= rows, and eventually has put that column
\* back into the pool.
C17_EventuallyReleased ==
    /\ \A k \in 1..(MaxCols \div 2) :
        /\ HoldsColumn(k) ~> (pc = "exit" \/ HasFinished(k))
        /\ HoldsColumn(k) ~> (pc = "exit" \/ HasReleased(k))
    /\ [][C17_SameColumn]_vars

\* A rain of speed 2 has advanced more than once and put its column back
\* while the loop is running.
C17_Witness ==
    /\ pc = "sweep"
    /\ \E k \in DOMAIN rains :
        /\ rains[k].gpc = "pick"
        /\ rains[k].speed = 2
        /\ rains[k].n > 1
        /\ rains[k].x \in Elems(pool)

----------------------------------------------------------------------------
(* C18 *)

\* C18: random.choice(pool) is never reached with an empty pool, neither
\* by a generator that has not run yet nor by one that has put its column
\* back; main is never left by its IndexError.
C18_PickFromNonEmptyPool ==
    /\ pc # "crash"
    /\ (pc = "sweep" /\ i <= Len(rains) /\ rains[i].gpc \in {"created", "pick"})
            => Len(pool) > 0

\* A new generator is about to pick its first column from a pool that the
\* rain before it in the list has left with one column less, on a terminal
\* where the number of rains is at its maximum.
C18_Witness ==
    /\ pc = "sweep"
    /\ i = 2 /\ Len(rains) = 2
    /\ Len(rains) = options.count
    /\ rains[2].gpc = "created"
    /\ Holds(rains[1])
    /\ Len(pool) = COLS - 2

----------------------------------------------------------------------------
(* C19 *)

\* The rows of column c that hold a glyph.
GlyphRows(c) == {cl[1] : cl \in {d \in screen : d[2] = c}}

\* In the advance of rains[i], the blanks written are rows the fall has not
\* written a blank to before.
C19_ClearsDoNotOverlap ==
    (pc = "sweep" /\ i' # i) => blank_rows(writes') \cap rains[i].blanked = {}

\* C19: the rows a fall has cleared are always 0..min(tail, rows)-1, each
\* clear starting where the one before ended; when the column has been put
\* back the fall has cleared every row 0..rows-1 and no glyph is left in
\* the column; no column of the pool holds a glyph.
C19_ColumnClearedAtRelease ==
    /\ [](\A k \in DOMAIN rains :
            /\ Holds(rains[k]) =>
                  rains[k].blanked = RowRange(0, Min(rains[k].tail, LINES))
            /\ rains[k].gpc = "pick" =>
                  /\ rains[k].blanked = RowRange(0, LINES)
                  /\ rains[k].marks = {}
                  /\ GlyphRows(rains[k].x) = {})
    /\ [](\A c \in Elems(pool) : GlyphRows(c) = {})
    /\ [][C19_ClearsDoNotOverlap]_vars

\* A rain of speed 2 and odd length, whose first clear is a single row, has
\* put its column back after a fall that painted glyphs.
C19_Witness ==
    \E k \in DOMAIN rains :
        /\ rains[k].gpc = "pick"
        /\ rains[k].speed = 2
        /\ rains[k].max_length % 2 = 1
        /\ rains[k].n > 2
        /\ Cardinality(rains[k].blanked) = LINES

----------------------------------------------------------------------------
(* C20 *)

\* One step of a next(r) call: a generator goes to its column pick only
\* from its suspension point, a fall advances only in the call of the for
\* loop on that generator, and the for loop goes on only when the generator
\* has suspended after one more iteration.
C20_CallStep ==
    /\ \A k \in DOMAIN rains :
        /\ (rains'[k].gpc = "pick" /\ rains[k].gpc # "pick")
                => rains[k].gpc = "yielded"
        /\ (rains'[k].gpc = "loop") => rains[k].gpc \in {"created", "pick"}
        /\ (rains'[k].gpc = "yielded" /\ rains'[k].n # rains[k].n)
                => (pc = "sweep" /\ k = i /\ pc' = "sweep" /\ i' = i + 1)
    /\ (pc = "sweep" /\ i' # i)
            => /\ rains'[i].gpc = "yielded"
               /\ rains'[i].n = rains[i].n + 1
               /\ rains[i].n = 0 => rains[i].gpc = "loop"

\* C20: on a terminal of at least one row, a fall that has just started
\* has tail < rows, so it paints and suspends; a next(r) call never runs
\* through a whole fall without suspending, always ends at a suspension and
\* never by an exception.
C20_OneSuspensionPerCall ==
    /\ [](LINES >= 1 =>
            /\ pc # "crash"
            /\ \A k \in DOMAIN rains :
                  rains[k].gpc = "loop" => rains[k].tail < LINES)
    /\ [][LINES >= 1 => C20_CallStep]_vars

\* The first rain, created a frame before the second, is in its first
\* iteration while the second one has advanced more often: the first rain
\* has put its column back, picked a column and painted the first frame of
\* its next fall in one call.
C20_Witness ==
    /\ pc = "sweep"
    /\ Len(rains) = 2
    /\ rains[1].gpc = "yielded"
    /\ rains[1].n = 1
    /\ rains[1].adv = 1
    /\ rains[2].n >= 2

====
